---- MODULE Spec2Model ----
(***************************************************************************)
(* Model of libcamera's PipelineHandler base class                         *)
(* (src/libcamera/pipeline_handler.cpp): the per-camera request queue,     *)
(* buffer and request completion, stop(), camera registration and the      *)
(* hot-unplug cascade.                                                     *)
(*                                                                         *)
(* One PipelineHandler instance is modelled.  Every action is one call of  *)
(* a method of the handler, from its first statement to its return,        *)
(* except in the specifications that interleave calls made in two          *)
(* contexts, where queueRequest, completeRequest and stop advance          *)
(* statement by statement.  The collaborators whose code lives in other    *)
(* files (Request, Buffer, Camera, CameraManager, Signal, MediaDevice, the *)
(* handlers that implement match(), the ASSERT macro) are modelled by the  *)
(* effect the handler relies on.                                           *)
(***************************************************************************)
EXTENDS Integers, Sequences, FiniteSets, TLC

\* Bounds of the model.
MaxCameras == 2
MaxRequests == 2
MaxBuffers == 2
MaxMedia == 3
\* How many calls of completeBuffer may name a buffer that is not pending.
MaxRepeats == 1
\* How many factories are constructed, under how many names.
MaxFactories == 4
MaxNames == 3

Cameras == 1..MaxCameras
Requests == 1..MaxRequests
BufferIds == 1..MaxBuffers
Media == 1..MaxMedia
Names == 1..MaxNames

VARIABLES
    fatal,            \* "none", "assert" (LOG(Fatal) ended the process) or
                      \* "undefined" (the process ran into undefined behaviour)
    cameraData_,      \* PipelineHandler::cameraData_ : Camera* -> CameraData
    cameras_,         \* PipelineHandler::cameras_ : vector<weak_ptr<Camera>>
    managerCameras,   \* cameras the CameraManager holds a shared_ptr to
    appCameras,       \* cameras an application holds a shared_ptr to
    connected,        \* media devices whose disconnected signal has our slot
    added,            \* per camera: calls of CameraManager::addCamera
    removed,          \* per camera: calls of CameraManager::removeCamera
    disconnected,     \* per camera: calls of Camera::disconnect
    nextRequest,      \* the next Request object to be created
    bufferMap_,       \* per request: the buffers it contains
    pending_,         \* Request::pending_
    status_,          \* Request::status_
    cancelled,        \* buffers on which Buffer::cancel() was called
    queued,           \* per camera: the requests queueRequest accepted, in order
    notifications,    \* per camera: the requestComplete() calls it received
    observed,         \* per request: the notifications about it, in order
    call,             \* the last call made to the handler, with its result
    acquired,         \* per media device: who holds it acquired
    factories,        \* PipelineHandlerFactory::factories()
    submit,           \* a queueRequest() call in progress, statement by statement
    complete,         \* a completeRequest() call in progress
    stopping          \* a stop() call in progress

queueVars == <<cameraData_, nextRequest, bufferMap_, pending_, status_,
               cancelled, queued, notifications, observed>>
hotplugVars == <<cameras_, managerCameras, appCameras, connected, added,
                 removed, disconnected>>
threadVars == <<submit, complete, stopping>>
extraVars == <<acquired, factories, threadVars>>
vars == <<fatal, queueVars, hotplugVars, call, extraVars>>

Call(op, camera, request, buffer, ret) ==
    [op |-> op, camera |-> camera, request |-> request, buffer |-> buffer,
     ret |-> ret]

\* A camera whose shared_ptr count is not zero.
Alive(c) == c \in managerCameras \cup appCameras

\* The condition of the ASSERT in cameraData().
Registered(c) == c \in DOMAIN cameraData_

\* cameraData(camera), for a registered camera.
cameraData(c) == cameraData_[c]

\* data->queuedRequests_
Queue(c) == cameraData(c).queuedRequests_

\* What camera c observes: bufferCompleted.emit(request, buffer) and
\* requestComplete(request), with the status the object has at that time.
BufferEvent(c, b, st) == <<"buffer", c, b, st>>
RequestEvent(c, st) == <<"request", c, 0, st>>

BufferStatus(cset, r, b) ==
    IF <<r, b>> \in cset THEN "BufferCancelled" ELSE "BufferSuccess"

Range(s) == {s[i] : i \in DOMAIN s}

\* How many requestComplete() notifications the log of a request holds.
Terminals(obs) == Cardinality({i \in DOMAIN obs : obs[i][1] = "request"})

\* A call in progress: the statement it is at and its local variables.
Thread(pc, c, r, b, snap) ==
    [pc |-> pc, camera |-> c, request |-> r, buffer |-> b, snap |-> snap,
     raced |-> FALSE]

\* No call in progress.
Idle == Thread("idle", 0, 0, 0, <<>>)

Init ==
    /\ fatal = "none"
    /\ cameraData_ = <<>>
    /\ cameras_ = <<>>
    /\ managerCameras = {}
    /\ appCameras = {}
    /\ connected = {}
    /\ added = [c \in Cameras |-> 0]
    /\ removed = [c \in Cameras |-> 0]
    /\ disconnected = [c \in Cameras |-> 0]
    /\ nextRequest = 1
    /\ bufferMap_ = [r \in Requests |-> {}]
    /\ pending_ = [r \in Requests |-> {}]
    /\ status_ = [r \in Requests |-> "RequestPending"]
    /\ cancelled = {}
    /\ queued = [c \in Cameras |-> <<>>]
    /\ notifications = [c \in Cameras |-> <<>>]
    /\ observed = [r \in Requests |-> <<>>]
    /\ call = Call("none", 0, 0, 0, "void")
    /\ acquired = [m \in Media |-> "free"]
    /\ factories = <<>>
    /\ submit = Idle
    /\ complete = Idle
    /\ stopping = Idle

\* ASSERT(condition) with a false condition: LOG(Fatal) ends the process.
Fatal ==
    /\ fatal' = "assert"
    /\ UNCHANGED <<queueVars, hotplugVars>>

\* cameraData() that indexes the map before it checks the camera: the
\* operator[] of std::map inserts an entry for the key it does not find.
CameraDataInserts(c) ==
    /\ fatal' = "assert"
    /\ cameraData_' = [x \in DOMAIN cameraData_ \cup {c} |->
                          IF x = c THEN [camera_ |-> 0, queuedRequests_ |-> <<>>]
                                   ELSE cameraData_[x]]
    /\ UNCHANGED <<nextRequest, bufferMap_, pending_, status_, cancelled,
                   queued, notifications, observed, hotplugVars>>

\* cameraData(camera) for a camera that has no entry in cameraData_: the
\* ASSERT of line 425 comes before the map is indexed.
CameraDataMissing(c) == Fatal

----
\* registerCamera(camera, data)

\* Camera data whose back-reference to the camera is left unset.
RegisterDataUnbound(c) == [camera_ |-> 0, queuedRequests_ |-> <<>>]

\* The data passed to registerCamera, after line 352.
RegisterData(c) == [camera_ |-> c, queuedRequests_ |-> <<>>]

\* Lines 352 to 355.
RegisterCameraOn(c) ==
    /\ cameraData_' = [x \in DOMAIN cameraData_ \cup {c} |->
                          IF x = c THEN RegisterData(c) ELSE cameraData_[x]]
    /\ cameras_' = Append(cameras_, c)
    /\ managerCameras' = managerCameras \cup {c}
    /\ added' = [added EXCEPT ![c] = @ + 1]

\* Every call registers a camera just created: cameras are numbered in the
\* order of their registration.
RegisterCamera(c) ==
    /\ fatal = "none"
    /\ UNCHANGED extraVars
    /\ c = Cardinality(DOMAIN cameraData_) + 1
    /\ RegisterCameraOn(c)
    /\ call' = Call("registerCamera", c, 0, 0, "void")
    /\ UNCHANGED <<fatal, appCameras, connected, removed, disconnected,
                   nextRequest, bufferMap_, pending_, status_, cancelled,
                   queued, notifications, observed>>

----
\* match(enumerator), as its documentation prescribes it for the handlers
\* that implement it

\* A failed attempt that keeps what it acquired.
MatchReleaseNone(acq, got) == acq

\* MediaDevice::release() on every device acquired during the attempt.
MatchRelease(acq, got) ==
    [m \in Media |-> IF m \in got THEN "free" ELSE acq[m]]

\* MediaDevice::acquire() on the devices needed, one after the other; it
\* fails on a device that is acquired already.
RECURSIVE MatchAcquire(_, _, _)
MatchAcquire(acq, need, got) ==
    IF need = {}
    THEN [ok |-> TRUE, acquired |-> acq, got |-> got]
    ELSE LET m == CHOOSE x \in need : \A y \in need : x <= y
         IN IF acq[m] = "free"
            THEN MatchAcquire([acq EXCEPT ![m] = "handler"], need \ {m},
                              got \cup {m})
            ELSE [ok |-> FALSE, acquired |-> MatchRelease(acq, got),
                  got |-> got]

\* A match that succeeds creates and registers a camera.
Match(need) ==
    /\ fatal = "none"
    /\ need # {}
    /\ LET res == MatchAcquire(acquired, need, {})
       IN /\ acquired' = res.acquired
          /\ IF res.ok
             THEN \E c \in Cameras :
                     /\ c = Cardinality(DOMAIN cameraData_) + 1
                     /\ RegisterCameraOn(c)
                     /\ call' = Call("match", c, Cardinality(need),
                                     Cardinality(res.got), "true")
             ELSE /\ call' = Call("match", 0, Cardinality(need),
                                  Cardinality(res.got), "false")
                  /\ UNCHANGED <<cameraData_, cameras_, managerCameras, added>>
    /\ UNCHANGED <<fatal, appCameras, connected, removed, disconnected,
                   nextRequest, bufferMap_, pending_, status_, cancelled,
                   queued, notifications, observed, factories, threadVars>>

\* Another user of the media devices acquires one, or releases it.
OtherAcquire(m) ==
    /\ fatal = "none"
    /\ acquired[m] = "free"
    /\ acquired' = [acquired EXCEPT ![m] = "other"]
    /\ call' = Call("acquire", m, 0, 0, "true")
    /\ UNCHANGED <<fatal, queueVars, hotplugVars, factories, threadVars>>

OtherRelease(m) ==
    /\ fatal = "none"
    /\ acquired[m] = "other"
    /\ acquired' = [acquired EXCEPT ![m] = "free"]
    /\ call' = Call("release", m, 0, 0, "void")
    /\ UNCHANGED <<fatal, queueVars, hotplugVars, factories, threadVars>>

----
\* PipelineHandlerFactory

\* registerType() that keeps one factory per name.
RegisterTypeUnique(fs, f) ==
    IF \E i \in DOMAIN fs : fs[i].name_ = f.name_ THEN fs ELSE Append(fs, f)

\* registerType(factory): factories.push_back(factory)
RegisterType(fs, f) == Append(fs, f)

\* The constructor of a factory named name; the object constructed is
\* numbered by the order of construction.
PipelineHandlerFactory(name) ==
    /\ fatal = "none"
    /\ Len(factories) < MaxFactories
    /\ LET this == [factory |-> Len(factories) + 1, name_ |-> name]
       IN /\ factories' = RegisterType(factories, this)
          /\ call' = Call("PipelineHandlerFactory", this.factory, name, 0,
                          "void")
    /\ UNCHANGED <<fatal, queueVars, hotplugVars, acquired, threadVars>>

----
\* queueRequest(camera, request)

\* queueRequest that puts the request at the head of the queue.
PushFront(q, r) == <<r>> \o q

\* queuedRequests_.push_back(request)
PushBack(q, r) == Append(q, r)

\* The request is a Request object just created, with nb buffers, all
\* pending: requests are numbered in the order of their creation.
QueueRequest(c, r, nb) ==
    /\ fatal = "none"
    /\ UNCHANGED extraVars
    /\ r = nextRequest
    /\ r <= MaxRequests
    /\ Registered(c) => Alive(c)
    /\ IF ~Registered(c)
       THEN /\ CameraDataMissing(c)
            /\ call' = Call("queueRequest", c, r, 0, "fatal")
       ELSE /\ cameraData_' = [cameraData_ EXCEPT
                                  ![c].queuedRequests_ = PushBack(@, r)]
            /\ nextRequest' = r + 1
            /\ bufferMap_' = [bufferMap_ EXCEPT ![r] = 1..nb]
            /\ pending_' = [pending_ EXCEPT ![r] = 1..nb]
            /\ queued' = [queued EXCEPT ![c] = Append(@, r)]
            /\ call' = Call("queueRequest", c, r, 0, "0")
            /\ UNCHANGED <<fatal, status_, cancelled, notifications,
                           observed, hotplugVars>>

----
\* completeBuffer(camera, request, buffer)

\* Request::completeBuffer(buffer): the buffer leaves the pending set.
RequestCompleteBuffer(P, b) == P \ {b}

\* completeBuffer that updates the request and forgets to emit the signal.
CompleteBufferNoEmit(st, r, b) == [st EXCEPT !.pending[r] = @ \ {b}]

\* completeBuffer that completes the request with its last buffer.
CompleteBufferAuto(st, r, b) ==
    LET s1 == [st EXCEPT
                  !.obs[r] = Append(@, BufferEvent(st.camera, b,
                                        BufferStatus(st.cancelled, r, b))),
                  !.pending[r] = @ \ {b}]
    IN IF s1.pending[r] = {} /\ s1.queue # <<>> /\ Head(s1.queue) = r
       THEN [s1 EXCEPT !.queue = Tail(@),
                       !.status[r] = "RequestComplete",
                       !.notes = Append(@, <<r, "RequestComplete">>),
                       !.obs[r] = Append(@, RequestEvent(st.camera,
                                                         "RequestComplete"))]
       ELSE s1

\* completeBuffer that emits the signal and leaves the buffer pending.
CompleteBufferKeepsPending(st, r, b) ==
    [st EXCEPT
        !.obs[r] = Append(@, BufferEvent(st.camera, b,
                                         BufferStatus(st.cancelled, r, b)))]

\* The body of completeBuffer on the state it touches: the camera's
\* observations and the request's pending set.  The signal is emitted first.
CompleteBufferOn(st, r, b) ==
    [st EXCEPT
        !.obs[r] = Append(@, BufferEvent(st.camera, b,
                                         BufferStatus(st.cancelled, r, b))),
        !.pending[r] = RequestCompleteBuffer(@, b)]

\* The value completeBuffer returns: Request::completeBuffer's result.
CompleteBufferResult(st, r) == IF st.pending[r] = {} THEN "true" ELSE "false"

\* The calls of completeBuffer so far that named a buffer already signaled.
RECURSIVE Repeats(_)
Repeats(obs) ==
    IF obs = <<>>
    THEN 0
    ELSE LET e == obs[Len(obs)]
             before == SubSeq(obs, 1, Len(obs) - 1)
         IN (IF e[1] = "buffer"
                /\ \E i \in DOMAIN before :
                      before[i][1] = "buffer" /\ before[i][3] = e[3]
             THEN 1 ELSE 0) + Repeats(before)

RECURSIVE SumOver(_, _)
SumOver(f, S) ==
    IF S = {} THEN 0
    ELSE LET x == CHOOSE y \in S : TRUE IN f[x] + SumOver(f, S \ {x})

TotalRepeats == SumOver([r \in Requests |-> Repeats(observed[r])], Requests)

State(c) ==
    [queue |-> Queue(c), pending |-> pending_, status |-> status_,
     cancelled |-> cancelled, notes |-> notifications[c],
     obs |-> observed, camera |-> c]

\* A handler that keeps one queue for all its cameras.
CommitShared(c, st) ==
    /\ cameraData_' = [x \in DOMAIN cameraData_ |->
                          [cameraData_[x] EXCEPT !.queuedRequests_ = st.queue]]
    /\ pending_' = st.pending
    /\ status_' = st.status
    /\ cancelled' = st.cancelled
    /\ notifications' = [notifications EXCEPT ![c] = st.notes]
    /\ observed' = st.obs

\* Writes a transformed state back to the variables of camera c.
Commit(c, st) ==
    /\ cameraData_' = [cameraData_ EXCEPT ![c].queuedRequests_ = st.queue]
    /\ pending_' = st.pending
    /\ status_' = st.status
    /\ cancelled' = st.cancelled
    /\ notifications' = [notifications EXCEPT ![c] = st.notes]
    /\ observed' = st.obs

\* Called for a request the camera has queued and that is not deleted yet,
\* and for any buffer of that request, pending or not.
CompleteBuffer(c, r, b) ==
    /\ fatal = "none"
    /\ UNCHANGED extraVars
    /\ Registered(c)
    /\ Alive(c)
    /\ \E i \in DOMAIN Queue(c) : Queue(c)[i] = r
    /\ b \in bufferMap_[r]
    /\ b \in pending_[r] \/ TotalRepeats < MaxRepeats
    /\ LET st == CompleteBufferOn(State(c), r, b)
       IN /\ Commit(c, st)
          /\ call' = Call("completeBuffer", c, r, b, CompleteBufferResult(st, r))
    /\ UNCHANGED <<fatal, nextRequest, bufferMap_, queued, hotplugVars>>

----
\* completeRequest(camera, request)

\* completeRequest that leaves the request in the queue.
PopFrontKeep(q) == q

\* queuedRequests_.pop_front()
PopFront(q) == Tail(q)

\* request->complete(status); camera->requestComplete(request)
RequestCompleteOn(st, r, status) ==
    [st EXCEPT !.status[r] = status,
               !.notes = Append(@, <<r, status>>),
               !.obs[r] = Append(@, RequestEvent(st.camera, status))]

CompleteRequestOn(st, r) ==
    RequestCompleteOn([st EXCEPT !.queue = PopFront(@)], r, "RequestComplete")

CompleteRequest(c, r) ==
    /\ fatal = "none"
    /\ UNCHANGED extraVars
    /\ Registered(c) => Alive(c)
    /\ IF ~Registered(c)
       THEN /\ CameraDataMissing(c)
            /\ call' = Call("completeRequest", c, r, 0, "fatal")
       ELSE IF Queue(c) = <<>>
       THEN \* front() of an empty deque is undefined: the slot read holds
            \* any value.  Either it differs from request and the ASSERT
            \* fires, or it equals request and the call goes on.
            \/ /\ Fatal
               /\ call' = Call("completeRequest", c, r, 0, "fatal")
            \/ /\ fatal' = "undefined"
               /\ Commit(c, RequestCompleteOn(State(c), r, "RequestComplete"))
               /\ call' = Call("completeRequest", c, r, 0, "void")
               /\ UNCHANGED <<nextRequest, bufferMap_, queued, hotplugVars>>
       ELSE IF r # Head(Queue(c))
       THEN /\ Fatal
            /\ call' = Call("completeRequest", c, r, 0, "fatal")
       ELSE /\ Commit(c, CompleteRequestOn(State(c), r))
            /\ call' = Call("completeRequest", c, r, 0, "void")
            /\ UNCHANGED <<fatal, nextRequest, bufferMap_, queued,
                           hotplugVars>>

----
\* stop(camera)

\* buffer->cancel()
BufferCancel(cset, r, b) == cset \cup {<<r, b>>}

\* *request->pending_.begin()
PendingBegin(P) == CHOOSE b \in P : \A x \in P : b <= x

RECURSIVE StopBuffers(_, _)
\* The inner loop of stop(): cancels and completes the pending buffers.
StopBuffers(st, r) ==
    IF st.pending[r] = {}
    THEN st
    ELSE LET buffer == PendingBegin(st.pending[r])
             s1 == [st EXCEPT !.cancelled = BufferCancel(@, r, buffer)]
         IN StopBuffers(CompleteBufferOn(s1, r, buffer), r)

\* stop() that forgets the buffers still pending.
StopRequestNoBuffers(st) ==
    LET request == Head(st.queue)
        s1 == [st EXCEPT !.queue = Tail(@)]
    IN RequestCompleteOn(s1, request, "RequestCancelled")

\* stop() that tells the camera the request is cancelled before it cancels
\* the buffers.
StopRequestNotifyFirst(st) ==
    LET request == Head(st.queue)
        s1 == [st EXCEPT !.queue = Tail(@)]
    IN StopBuffers(RequestCompleteOn(s1, request, "RequestCancelled"), request)

\* One iteration of the outer loop of stop().
StopRequest(st) ==
    LET request == Head(st.queue)
        s1 == [st EXCEPT !.queue = PopFront(@)]
    IN RequestCompleteOn(StopBuffers(s1, request), request, "RequestCancelled")

RECURSIVE StopLoop(_)
StopLoop(st) == IF st.queue = <<>> THEN st ELSE StopLoop(StopRequest(st))

Stop(c) ==
    /\ fatal = "none"
    /\ UNCHANGED extraVars
    /\ Registered(c) => Alive(c)
    /\ IF ~Registered(c)
       THEN /\ CameraDataMissing(c)
            /\ call' = Call("stop", c, 0, 0, "fatal")
       ELSE /\ Commit(c, StopLoop(State(c)))
            /\ call' = Call("stop", c, 0, 0, "void")
            /\ UNCHANGED <<fatal, nextRequest, bufferMap_, queued,
                           hotplugVars>>

----
\* queueRequest and completeRequest statement by statement, for the calls
\* that run in two contexts at once.  The file guards queuedRequests_ with no
\* lock: a push_back and a pop_front of the std::deque that overlap are a
\* data race.  Each of the two is a read of the deque followed by the write
\* of the deque computed from what was read, so that overlapping calls yield
\* every outcome of the race: both effects, or one of them lost.

\* Line 289: cameraData(camera), on a request just created.
QueueRequestBegin(c, r, nb) ==
    /\ fatal = "none"
    /\ submit.pc = "idle"
    /\ r = nextRequest
    /\ r <= MaxRequests
    /\ Registered(c)
    /\ Alive(c)
    /\ nextRequest' = r + 1
    /\ bufferMap_' = [bufferMap_ EXCEPT ![r] = 1..nb]
    /\ pending_' = [pending_ EXCEPT ![r] = 1..nb]
    /\ submit' = Thread("read", c, r, 0, <<>>)
    /\ UNCHANGED <<fatal, cameraData_, status_, cancelled, queued,
                   notifications, observed, hotplugVars, call, acquired,
                   factories, complete, stopping>>

\* Line 290, push_back: the deque is read.
QueueRequestRead ==
    /\ fatal = "none"
    /\ submit.pc = "read"
    /\ submit' = [submit EXCEPT !.pc = "write", !.snap = Queue(submit.camera)]
    /\ UNCHANGED <<fatal, queueVars, hotplugVars, call, acquired, factories,
                   complete, stopping>>

\* Line 290, push_back: the deque is written; line 292: return 0.
QueueRequestWrite ==
    /\ fatal = "none"
    /\ submit.pc = "write"
    /\ cameraData_' = [cameraData_ EXCEPT ![submit.camera].queuedRequests_ =
                          PushBack(submit.snap, submit.request)]
    /\ queued' = [queued EXCEPT ![submit.camera] = Append(@, submit.request)]
    /\ call' = Call("queueRequest", submit.camera, submit.request, 0, "0")
    /\ submit' = Idle
    /\ UNCHANGED <<fatal, nextRequest, bufferMap_, pending_, status_,
                   cancelled, notifications, observed, hotplugVars, acquired,
                   factories, complete, stopping>>

\* Line 331: cameraData(camera).  The callback completes the request that
\* is at the front of the queue when the callback starts.
\* Records, for a call made by the hardware callback, that it ran while a
\* stop() was in progress.
Raced(t) == IF t.pc = "idle" THEN t ELSE [t EXCEPT !.raced = TRUE]

CompleteRequestBegin(c, r) ==
    /\ fatal = "none"
    /\ complete.pc = "idle"
    /\ Registered(c)
    /\ Alive(c)
    /\ Queue(c) # <<>>
    /\ r = Head(Queue(c))
    /\ complete' = Thread("assert", c, r, 0, <<>>)
    /\ UNCHANGED <<fatal, queueVars, hotplugVars, call, acquired, factories,
                   submit>>
    /\ stopping' = Raced(stopping)

\* Line 332: ASSERT(request == data->queuedRequests_.front()).
CompleteRequestAssert ==
    /\ fatal = "none"
    /\ complete.pc = "assert"
    /\ LET c == complete.camera
           r == complete.request
       IN IF Queue(c) = <<>>
          THEN \* front() of an empty deque is undefined
               \/ /\ Fatal
                  /\ call' = Call("completeRequest", c, r, 0, "fatal")
                  /\ UNCHANGED complete
               \/ /\ fatal' = "undefined"
                  /\ Commit(c, RequestCompleteOn(State(c), r,
                                                 "RequestComplete"))
                  /\ call' = Call("completeRequest", c, r, 0, "void")
                  /\ UNCHANGED <<nextRequest, bufferMap_, queued,
                                 hotplugVars, complete>>
          ELSE IF r # Head(Queue(c))
          THEN /\ Fatal
               /\ call' = Call("completeRequest", c, r, 0, "fatal")
               /\ UNCHANGED complete
          ELSE /\ complete' = [complete EXCEPT !.pc = "read"]
               /\ UNCHANGED <<fatal, queueVars, hotplugVars, call>>
    /\ UNCHANGED <<acquired, factories, submit>>
    /\ stopping' = Raced(stopping)

\* Line 333, pop_front: the deque is read.
CompleteRequestRead ==
    /\ fatal = "none"
    /\ complete.pc = "read"
    /\ complete' = [complete EXCEPT !.pc = "write",
                                    !.snap = Queue(complete.camera)]
    /\ UNCHANGED <<fatal, queueVars, hotplugVars, call, acquired, factories,
                   submit>>
    /\ stopping' = Raced(stopping)

\* Line 333, pop_front: the deque is written.  pop_front() of a deque that
\* was read empty is undefined.
CompleteRequestWrite ==
    /\ fatal = "none"
    /\ complete.pc = "write"
    /\ IF complete.snap = <<>>
       THEN /\ fatal' = "undefined"
            /\ UNCHANGED <<cameraData_, complete>>
       ELSE /\ cameraData_' = [cameraData_ EXCEPT
                                  ![complete.camera].queuedRequests_ =
                                      PopFront(complete.snap)]
            /\ complete' = [complete EXCEPT !.pc = "notify", !.snap = <<>>]
            /\ UNCHANGED fatal
    /\ UNCHANGED <<nextRequest, bufferMap_, pending_, status_, cancelled,
                   queued, notifications, observed, hotplugVars, call,
                   acquired, factories, submit>>
    /\ stopping' = Raced(stopping)

\* Lines 335 and 336: request->complete(RequestComplete) and
\* camera->requestComplete(request); the camera's observer runs.
CompleteRequestNotify ==
    /\ fatal = "none"
    /\ complete.pc = "notify"
    /\ Commit(complete.camera,
              RequestCompleteOn(State(complete.camera), complete.request,
                                "RequestComplete"))
    /\ complete' = [complete EXCEPT !.pc = "return"]
    /\ UNCHANGED <<fatal, nextRequest, bufferMap_, queued, hotplugVars, call,
                   acquired, factories, submit>>
    /\ stopping' = Raced(stopping)

\* Line 337: the observer has returned and completeRequest returns.
CompleteRequestReturn ==
    /\ fatal = "none"
    /\ complete.pc = "return"
    /\ call' = Call("completeRequest", complete.camera, complete.request, 0,
                    "void")
    /\ complete' = Idle
    /\ UNCHANGED <<fatal, queueVars, hotplugVars, acquired, factories,
                   submit>>
    /\ stopping' = Raced(stopping)

\* Line 333, pop_front, where no other access to the deque overlaps it.
CompleteRequestPop ==
    /\ fatal = "none"
    /\ complete.pc = "read"
    /\ IF Queue(complete.camera) = <<>>
       THEN /\ fatal' = "undefined"
            /\ UNCHANGED <<cameraData_, complete>>
       ELSE /\ cameraData_' = [cameraData_ EXCEPT
                                  ![complete.camera].queuedRequests_ =
                                      PopFront(@)]
            /\ complete' = [complete EXCEPT !.pc = "notify"]
            /\ UNCHANGED fatal
    /\ UNCHANGED <<nextRequest, bufferMap_, pending_, status_, cancelled,
                   queued, notifications, observed, hotplugVars, call,
                   acquired, factories, submit>>
    /\ stopping' = Raced(stopping)

\* completeBuffer called by the hardware callback, for a buffer still
\* pending of a request the camera was not yet told is terminal.
CompleteBufferPending(c, r, b) ==
    /\ fatal = "none"
    /\ Registered(c)
    /\ Alive(c)
    /\ r \in Range(queued[c])
    /\ Terminals(observed[r]) = 0
    /\ b \in pending_[r]
    /\ LET st == CompleteBufferOn(State(c), r, b)
       IN /\ Commit(c, st)
          /\ call' = Call("completeBuffer", c, r, b, CompleteBufferResult(st, r))
    /\ UNCHANGED <<fatal, nextRequest, bufferMap_, queued, hotplugVars,
                   acquired, factories, submit, complete>>
    /\ stopping' = Raced(stopping)

----
\* stop statement by statement

\* stop() that tells the camera twice.
StopRequestCompleteTwice(st, r) ==
    RequestCompleteOn(RequestCompleteOn(st, r, "RequestCancelled"), r,
                      "RequestCancelled")

\* Lines 262 and 263: request->complete(RequestCancelled) and
\* camera->requestComplete(request).
StopRequestComplete(st, r) == RequestCompleteOn(st, r, "RequestCancelled")

\* Line 250: cameraData(camera).  The call is raced if a completeRequest is
\* in progress when it starts; snap keeps the queue the call started with.
StopBegin(c) ==
    /\ fatal = "none"
    /\ stopping.pc = "idle"
    /\ Registered(c)
    /\ Alive(c)
    /\ stopping' = [Thread("outer", c, 0, 0, Queue(c)) EXCEPT
                       !.raced = stopping.raced \/ complete.pc # "idle"]
    /\ UNCHANGED <<fatal, queueVars, hotplugVars, call, acquired, factories,
                   submit, complete>>

\* Lines 252 to 254: the test of the outer loop, front() and pop_front();
\* line 265 when the queue is empty.
StopOuter ==
    /\ fatal = "none"
    /\ stopping.pc = "outer"
    /\ LET c == stopping.camera
       IN IF Queue(c) = <<>>
          THEN /\ stopping' = [Idle EXCEPT !.raced = stopping.raced]
               /\ call' = Call("stop", c, 0, 0, "void")
               /\ UNCHANGED cameraData_
          ELSE /\ stopping' = [stopping EXCEPT !.pc = "inner",
                                              !.request = Head(Queue(c))]
               /\ cameraData_' = [cameraData_ EXCEPT
                                     ![c].queuedRequests_ = PopFront(@)]
               /\ UNCHANGED call
    /\ UNCHANGED <<fatal, nextRequest, bufferMap_, pending_, status_,
                   cancelled, queued, notifications, observed, hotplugVars,
                   acquired, factories, submit, complete>>

\* Lines 256 to 258: the test of the inner loop, *pending_.begin() and
\* buffer->cancel().
StopInner ==
    /\ fatal = "none"
    /\ stopping.pc = "inner"
    /\ LET r == stopping.request
       IN IF pending_[r] = {}
          THEN /\ stopping' = [stopping EXCEPT !.pc = "request"]
               /\ UNCHANGED cancelled
          ELSE LET buffer == PendingBegin(pending_[r])
               IN /\ stopping' = [stopping EXCEPT !.pc = "buffer",
                                                 !.buffer = buffer]
                  /\ cancelled' = BufferCancel(cancelled, r, buffer)
    /\ UNCHANGED <<fatal, cameraData_, nextRequest, bufferMap_, pending_,
                   status_, queued, notifications, observed, hotplugVars,
                   call, acquired, factories, submit, complete>>

\* Line 259: completeBuffer(camera, request, buffer).
StopBuffer ==
    /\ fatal = "none"
    /\ stopping.pc = "buffer"
    /\ Commit(stopping.camera,
              CompleteBufferOn(State(stopping.camera), stopping.request,
                               stopping.buffer))
    /\ stopping' = [stopping EXCEPT !.pc = "inner", !.buffer = 0]
    /\ UNCHANGED <<fatal, nextRequest, bufferMap_, queued, hotplugVars, call,
                   acquired, factories, submit, complete>>

\* Lines 262 and 263; the camera's observer runs.
StopNotify ==
    /\ fatal = "none"
    /\ stopping.pc = "request"
    /\ Commit(stopping.camera,
              StopRequestComplete(State(stopping.camera), stopping.request))
    /\ stopping' = [stopping EXCEPT !.pc = "notified"]
    /\ UNCHANGED <<fatal, nextRequest, bufferMap_, queued, hotplugVars, call,
                   acquired, factories, submit, complete>>

\* Line 264: the observer has returned and the outer loop goes on.
StopObserverReturn ==
    /\ fatal = "none"
    /\ stopping.pc = "notified"
    /\ stopping' = [stopping EXCEPT !.pc = "outer", !.request = 0]
    /\ UNCHANGED <<fatal, queueVars, hotplugVars, call, acquired, factories,
                   submit, complete>>

----
\* hotplugMediaDevice(media), mediaDeviceDisconnected(media), disconnect()

\* media->disconnected.connect(this, &PipelineHandler::mediaDeviceDisconnected)
SignalConnect(slots, m) == slots \cup {m}

\* media->disconnected.disconnect(this)
SignalDisconnect(slots, m) == slots \ {m}

HotplugMediaDevice(m) ==
    /\ fatal = "none"
    /\ UNCHANGED extraVars
    /\ connected' = SignalConnect(connected, m)
    /\ call' = Call("hotplugMediaDevice", m, 0, 0, "void")
    /\ UNCHANGED <<fatal, queueVars, cameras_, managerCameras, appCameras,
                   added, removed, disconnected>>

\* disconnect() that does not check whether the camera is still alive.
DisconnectCameraUnchecked(h, c) ==
    [h EXCEPT !.disconnected[c] = @ + 1,
              !.manager = @ \ {c},
              !.removed[c] = @ + 1]

\* The body of the loop of disconnect() for one weak reference: lock it,
\* skip it when the camera is gone, else camera->disconnect() and
\* manager_->removeCamera(camera.get()).
DisconnectCamera(h, c) ==
    IF c \notin h.manager \cup h.app
    THEN h
    ELSE [h EXCEPT !.disconnected[c] = @ + 1,
                   !.manager = @ \ {c},
                   !.removed[c] = @ + 1]

RECURSIVE DisconnectLoop(_, _)
DisconnectLoop(h, ptrs) ==
    IF ptrs = <<>>
    THEN h
    ELSE DisconnectLoop(DisconnectCamera(h, Head(ptrs)), Tail(ptrs))

\* disconnect() that keeps its list of cameras.
CamerasKeep(ptrs) == ptrs

\* cameras_.clear()
CamerasClear(ptrs) == <<>>

\* disconnect(): the loop over cameras_, then cameras_.clear().
Disconnect ==
    LET h == DisconnectLoop([manager |-> managerCameras, app |-> appCameras,
                             disconnected |-> disconnected,
                             removed |-> removed], cameras_)
    IN /\ managerCameras' = h.manager
       /\ disconnected' = h.disconnected
       /\ removed' = h.removed
       /\ cameras_' = CamerasClear(cameras_)
       /\ UNCHANGED appCameras

\* The slot that calls disconnect() whatever the list of cameras holds.
CamerasEmptyNever(ptrs) == FALSE

\* cameras_.empty()
CamerasEmpty(ptrs) == ptrs = <<>>

\* The slot of the media device's disconnected signal; the signal calls it
\* only while the slot is connected.
MediaDeviceDisconnected(m) ==
    /\ fatal = "none"
    /\ UNCHANGED extraVars
    /\ m \in connected
    /\ connected' = SignalDisconnect(connected, m)
    /\ IF CamerasEmpty(cameras_)
       THEN UNCHANGED <<cameras_, managerCameras, appCameras, removed,
                        disconnected>>
       ELSE Disconnect
    /\ call' = Call("mediaDeviceDisconnected", m, 0, 0,
                    IF CamerasEmpty(cameras_) THEN "return" ELSE "disconnect")
    /\ UNCHANGED <<fatal, queueVars, added>>

----
\* The holders of the cameras outside the handler.

\* An application takes a reference to a camera from the camera manager.
AppAcquire(c) ==
    /\ fatal = "none"
    /\ UNCHANGED extraVars
    /\ c \in managerCameras
    /\ c \notin appCameras
    /\ appCameras' = appCameras \cup {c}
    /\ call' = Call("appAcquire", c, 0, 0, "void")
    /\ UNCHANGED <<fatal, queueVars, cameras_, managerCameras, connected,
                   added, removed, disconnected>>

\* An application drops its reference.
AppRelease(c) ==
    /\ fatal = "none"
    /\ UNCHANGED extraVars
    /\ c \in appCameras
    /\ appCameras' = appCameras \ {c}
    /\ call' = Call("appRelease", c, 0, 0, "void")
    /\ UNCHANGED <<fatal, queueVars, cameras_, managerCameras, connected,
                   added, removed, disconnected>>

\* The camera manager drops its reference on its own.
ManagerRelease(c) ==
    /\ fatal = "none"
    /\ UNCHANGED extraVars
    /\ c \in managerCameras
    /\ managerCameras' = managerCameras \ {c}
    /\ call' = Call("managerRelease", c, 0, 0, "void")
    /\ UNCHANGED <<fatal, queueVars, cameras_, appCameras, connected,
                   added, removed, disconnected>>

----
\* The whole handler and the factory registry: every call, in any order,
\* each from its first statement to its return.
Next ==
    \/ \E need \in SUBSET Media : Match(need)
    \/ \E m \in Media : OtherAcquire(m)
    \/ \E m \in Media : OtherRelease(m)
    \/ \E name \in Names : PipelineHandlerFactory(name)
    \/ \E c \in Cameras : RegisterCamera(c)
    \/ \E c \in Cameras, r \in Requests, nb \in 0..MaxBuffers :
          QueueRequest(c, r, nb)
    \/ \E c \in Cameras, r \in Requests, b \in BufferIds :
          CompleteBuffer(c, r, b)
    \/ \E c \in Cameras, r \in Requests : CompleteRequest(c, r)
    \/ \E c \in Cameras : Stop(c)
    \/ \E m \in Media : HotplugMediaDevice(m)
    \/ \E m \in Media : MediaDeviceDisconnected(m)
    \/ \E c \in Cameras : AppAcquire(c)
    \/ \E c \in Cameras : AppRelease(c)
    \/ \E c \in Cameras : ManagerRelease(c)

Spec == Init /\ [][Next]_vars

\* The request path alone.  The calls left out write none of queueVars, and
\* without them every registered camera stays alive.
NextQueue ==
    \/ \E c \in Cameras : RegisterCamera(c)
    \/ \E c \in Cameras, r \in Requests, nb \in 0..MaxBuffers :
          QueueRequest(c, r, nb)
    \/ \E c \in Cameras, r \in Requests, b \in BufferIds :
          CompleteBuffer(c, r, b)
    \/ \E c \in Cameras, r \in Requests : CompleteRequest(c, r)
    \/ \E c \in Cameras : Stop(c)

SpecQueue == Init /\ [][NextQueue]_vars

\* queueRequest and completeRequest calls that respect the FIFO order: every
\* completeRequest names the request at the front of a queue that is not empty.
NextFifo ==
    \/ \E c \in Cameras : RegisterCamera(c)
    \/ \E c \in Cameras, r \in Requests, nb \in 0..MaxBuffers :
          Registered(c) /\ QueueRequest(c, r, nb)
    \/ \E c \in Cameras, r \in Requests :
          /\ Registered(c)
          /\ Queue(c) # <<>>
          /\ r = Head(Queue(c))
          /\ CompleteRequest(c, r)

SpecFifo == Init /\ [][NextFifo]_vars

\* Registration and hot-unplug alone.  The calls left out write none of
\* hotplugVars.
NextHotplug ==
    \/ \E c \in Cameras : RegisterCamera(c)
    \/ \E m \in Media : HotplugMediaDevice(m)
    \/ \E m \in Media : MediaDeviceDisconnected(m)
    \/ \E c \in Cameras : AppAcquire(c)
    \/ \E c \in Cameras : AppRelease(c)
    \/ \E c \in Cameras : ManagerRelease(c)

SpecHotplug == Init /\ [][NextHotplug]_vars

\* Match attempts among other users of the media devices.
NextMatch ==
    \/ \E need \in SUBSET Media : Match(need)
    \/ \E m \in Media : OtherAcquire(m)
    \/ \E m \in Media : OtherRelease(m)

SpecMatch == Init /\ [][NextMatch]_vars

\* queueRequest in the context that submits and completeRequest in the
\* context of the hardware callback, each statement by statement.
NextSubmitRace ==
    \/ \E c \in Cameras : RegisterCamera(c)
    \/ \E c \in Cameras, r \in Requests, nb \in 0..MaxBuffers :
          QueueRequestBegin(c, r, nb)
    \/ QueueRequestRead
    \/ QueueRequestWrite
    \/ \E c \in Cameras, r \in Requests : CompleteRequestBegin(c, r)
    \/ CompleteRequestAssert
    \/ CompleteRequestRead
    \/ CompleteRequestWrite
    \/ CompleteRequestNotify
    \/ CompleteRequestReturn

SpecSubmitRace == Init /\ [][NextSubmitRace]_vars

\* stop statement by statement, among the calls of the hardware callback
\* (completeBuffer, and completeRequest statement by statement) and
\* queueRequest calls; each access to the deque is one step.  The
\* application calls queueRequest and stop from one thread: while a stop or
\* a completeRequest is in progress, queueRequest is called only by the
\* camera's observer, from within requestComplete().
NextStopRace ==
    \/ \E c \in Cameras : RegisterCamera(c)
    \/ \E c \in Cameras, r \in Requests, nb \in 0..MaxBuffers :
          /\ Registered(c)
          /\ stopping.pc \in {"idle", "notified"}
          /\ complete.pc \in {"idle", "return"}
          /\ QueueRequest(c, r, nb)
    \/ \E c \in Cameras, r \in Requests, b \in BufferIds :
          CompleteBufferPending(c, r, b)
    \/ \E c \in Cameras, r \in Requests : CompleteRequestBegin(c, r)
    \/ CompleteRequestAssert
    \/ CompleteRequestPop
    \/ CompleteRequestNotify
    \/ CompleteRequestReturn
    \/ \E c \in Cameras : StopBegin(c)
    \/ StopOuter
    \/ StopInner
    \/ StopBuffer
    \/ StopNotify
    \/ StopObserverReturn

SpecStopRace == Init /\ [][NextStopRace]_vars

\* One statement of a stop() call in progress.
StopStep ==
    \/ StopOuter
    \/ StopInner
    \/ StopBuffer
    \/ StopNotify
    \/ StopObserverReturn

\* stop statement by statement, synchronized with the completion path as
\* its documentation requires: the hardware callback completes buffers only
\* while no stop is in progress, and queueRequest is called during a stop
\* only by the camera's observer.
NextStop ==
    \/ \E c \in Cameras : RegisterCamera(c)
    \/ \E c \in Cameras, r \in Requests, nb \in 0..MaxBuffers :
          /\ Registered(c)
          /\ stopping.pc \in {"idle", "notified"}
          /\ QueueRequest(c, r, nb)
    \/ \E c \in Cameras, r \in Requests, b \in BufferIds :
          stopping.pc = "idle" /\ CompleteBufferPending(c, r, b)
    \/ \E c \in Cameras : StopBegin(c)
    \/ StopStep

\* stop() has no statement that waits: the thread that runs it executes its
\* next statement, and the observer called at line 263 returns.
SpecStop == Init /\ [][NextStop]_vars /\ WF_vars(StopStep)

\* The construction of the factories.
NextRegistry ==
    \E name \in Names : PipelineHandlerFactory(name)

SpecRegistry == Init /\ [][NextRegistry]_vars

\* Registration and hot-unplug together with the calls that write the
\* camera data: queueRequest, completeRequest and stop.
NextLifetime ==
    \/ \E c \in Cameras : RegisterCamera(c)
    \/ \E c \in Cameras, r \in Requests, nb \in 0..MaxBuffers :
          Registered(c) /\ QueueRequest(c, r, nb)
    \/ \E c \in Cameras, r \in Requests :
          Registered(c) /\ CompleteRequest(c, r)
    \/ \E c \in Cameras : Registered(c) /\ Stop(c)
    \/ \E m \in Media : HotplugMediaDevice(m)
    \/ \E m \in Media : MediaDeviceDisconnected(m)
    \/ \E c \in Cameras : AppAcquire(c)
    \/ \E c \in Cameras : ManagerRelease(c)

SpecLifetime == Init /\ [][NextLifetime]_vars

----
\* Vocabulary of the properties.

IsPrefix(s, t) == Len(s) <= Len(t) /\ SubSeq(t, 1, Len(s)) = s

\* The part of log t that follows its prefix s.
Suffix(s, t) == SubSeq(t, Len(s) + 1, Len(t))

\* The requests camera c was told are terminal, in the order it was told.
NotifiedRequests(c) == [i \in DOMAIN notifications[c] |-> notifications[c][i][1]]

\* How many bufferCompleted notifications the log holds for buffer b.
BufferSignals(obs, b) ==
    Cardinality({i \in DOMAIN obs : obs[i][1] = "buffer" /\ obs[i][3] = b})

\* The step taken is the call op(c, ...) and the call was not fatal.
Called(op, c) == call'.op = op /\ call'.camera = c /\ call'.ret # "fatal"

\* The requests queued to camera c that it was not told are terminal, in
\* the order they were queued.
Unnotified(c) ==
    LET Waiting(r) == r \notin Range(NotifiedRequests(c))
    IN SelectSeq(queued[c], Waiting)

----
\* C1: completeRequest(camera, request) is accepted only when request is at
\* the front of the camera's queue; for any other request (further back,
\* never queued, or any request when the queue is empty) the call is fatal,
\* the queue is not modified and no request-completion notification is
\* delivered.
C1_CompleteRequestOnlyFront ==
    [][\A c \in Cameras :
          (/\ call'.op = "completeRequest"
           /\ call'.camera = c
           /\ Registered(c)
           /\ (Queue(c) = <<>> \/ call'.request # Head(Queue(c))))
          => (/\ fatal' = "assert"
              /\ cameraData_' = cameraData_
              /\ notifications' = notifications
              /\ observed' = observed)]_vars

\* The part of C1 the code keeps: on a queue that is not empty, a request
\* that is not at the front is refused by the ASSERT and nothing changes.
CompleteRequestBehindFrontIsFatal ==
    [][\A c \in Cameras :
          (/\ call'.op = "completeRequest"
           /\ call'.camera = c
           /\ Registered(c)
           /\ Queue(c) # <<>>
           /\ call'.request # Head(Queue(c)))
          => (/\ fatal' = "assert"
              /\ UNCHANGED <<queueVars, hotplugVars>>)]_vars

\* C2: the order in which a camera receives the terminal notifications of
\* its requests equals the order in which the requests were queued.
C2_NotificationOrderIsQueueOrder ==
    \A c \in Cameras : IsPrefix(NotifiedRequests(c), queued[c])

\* C3: every request accepted by queueRequest receives exactly one terminal
\* notification: never two, none missing once stop(camera) has returned, and
\* the terminal state of a request, once set, never changes.
C3_ExactlyOneTerminalNotification ==
    [][/\ \A r \in Requests : Terminals(observed'[r]) <= 1
       /\ \A c \in Cameras :
             Called("stop", c) =>
                \A r \in Range(queued'[c]) : Terminals(observed'[r]) = 1
       /\ \A r \in Requests :
             status_[r] # "RequestPending" => status_'[r] = status_[r]]_vars

\* C4: stop(camera) on a camera with N queued requests delivers exactly N
\* request notifications, all Cancelled and in queue order, delivers exactly
\* one buffer notification, marked cancelled, for each buffer that was still
\* pending and none for a buffer already completed, and leaves the queue
\* empty.
StopObserved(c, r, before, after) ==
    LET new == Suffix(before, after)
    IN /\ IsPrefix(before, after)
       /\ Len(new) = Cardinality(pending_[r]) + 1
       /\ new[Len(new)] = RequestEvent(c, "RequestCancelled")
       /\ \A b \in pending_[r] :
             \E i \in 1..(Len(new) - 1) : new[i] = BufferEvent(c, b, "BufferCancelled")

C4_StopCancelsEverythingOnce ==
    [][\A c \in Cameras :
          (Called("stop", c) /\ Registered(c)) =>
             /\ cameraData_'[c].queuedRequests_ = <<>>
             /\ notifications'[c] = notifications[c] \o
                   [i \in DOMAIN Queue(c) |-> <<Queue(c)[i], "RequestCancelled">>]
             /\ \A r \in Requests :
                   IF r \in Range(Queue(c))
                   THEN StopObserved(c, r, observed[r], observed'[r])
                   ELSE observed'[r] = observed[r]
             /\ \A d \in Cameras \ {c} : notifications'[d] = notifications[d]]_vars

\* stop() has returned after cancelling two requests, one of which had a
\* buffer completed by the hardware and another buffer still pending.
C4_Witness ==
    /\ call.op = "stop"
    /\ call.ret = "void"
    /\ Len(notifications[call.camera]) = 2
    /\ \A i \in 1..2 : notifications[call.camera][i][2] = "RequestCancelled"
    /\ \E r \in Requests :
          /\ BufferEvent(call.camera, 1, "BufferSuccess") \in Range(observed[r])
          /\ BufferEvent(call.camera, 2, "BufferCancelled") \in Range(observed[r])

\* C5: over queueRequest and completeRequest calls that respect the FIFO
\* order, every queueRequest makes the queue one longer, every
\* completeRequest makes it one shorter, and the queue is empty if and only
\* if every queued request has completed.
C5_QueueLengthCountsCompletions ==
    \A c \in DOMAIN cameraData_ :
       /\ Len(Queue(c)) = Len(queued[c]) - Len(notifications[c])
       /\ Queue(c) = <<>> <=>
             \A r \in Range(queued[c]) : status_[r] = "RequestComplete"

\* Two requests were queued and the first has been completed: the queue is
\* one shorter and not empty.
C5_Witness ==
    /\ call.op = "completeRequest"
    /\ call.ret = "void"
    /\ Len(queued[call.camera]) = 2
    /\ Len(Queue(call.camera)) = 1

\* C6, as the spec has it: a buffer is never signaled twice, whatever the
\* sequence of completeBuffer and stop calls.
C6_BufferNeverSignaledTwice ==
    \A r \in Requests : \A b \in BufferIds : BufferSignals(observed[r], b) <= 1

\* C6, amended: every call of completeBuffer notifies the camera exactly
\* once, for the buffer it names, removes that buffer from the pending set
\* and returns true iff no buffer of the request is pending after the call;
\* a buffer still pending has never been signaled, so a buffer completed
\* while pending has been signaled exactly once when the call returns.
C6_CompleteBufferSignalsOncePerCall ==
    [][/\ \A c \in Cameras : \A r \in Requests : \A b \in BufferIds :
             (Called("completeBuffer", c) /\ call'.request = r
              /\ call'.buffer = b) =>
                /\ observed' = [observed EXCEPT ![r] = Append(@,
                       BufferEvent(c, b, BufferStatus(cancelled, r, b)))]
                /\ pending_' = [pending_ EXCEPT ![r] = @ \ {b}]
                /\ call'.ret = "true" <=> pending_'[r] = {}
                /\ b \in pending_[r] => BufferSignals(observed'[r], b) = 1
       /\ \A r \in Requests : \A b \in pending_'[r] :
             BufferSignals(observed'[r], b) = 0]_vars

\* completeBuffer returned false for the first buffer of a request and true
\* for the second.
C6_Witness ==
    /\ call.op = "completeBuffer"
    /\ call.ret = "true"
    /\ bufferMap_[call.request] = {1, 2}
    /\ Len(observed[call.request]) = 2
    /\ pending_[call.request] = {}

\* C7: completeBuffer never completes the request: the queue and the state
\* of the request are unchanged and no request-completion notification is
\* delivered, even when the last pending buffer completes; a request
\* becomes terminal only in completeRequest or stop.
C7_CompleteBufferLeavesRequest ==
    [][/\ \A c \in Cameras :
             Called("completeBuffer", c) =>
                /\ cameraData_' = cameraData_
                /\ status_' = status_
                /\ notifications' = notifications
                /\ \A r \in Requests :
                      Terminals(observed'[r]) = Terminals(observed[r])
       /\ \A r \in Requests :
             status_'[r] # status_[r] =>
                call'.op \in {"completeRequest", "stop"}]_vars

\* completeBuffer returned true for the last buffer of a request that is
\* still queued and still pending.
C7_Witness ==
    /\ call.op = "completeBuffer"
    /\ call.ret = "true"
    /\ call.request \in Range(Queue(call.camera))
    /\ status_[call.request] = "RequestPending"
    /\ Terminals(observed[call.request]) = 0

\* C8, as the spec has it: queueRequest appends the request and returns
\* success, but on a camera that is not running (stop() has just returned)
\* it returns a failure status and the request is not queued.
C8_QueueRequestFailsWhenStopped ==
    [][\A c \in Cameras :
          (Called("queueRequest", c) /\ Registered(c)) =>
             IF call.op = "stop" /\ call.camera = c
             THEN /\ call'.ret # "0"
                  /\ call'.request \notin Range(cameraData_'[c].queuedRequests_)
             ELSE /\ call'.ret = "0"
                  /\ cameraData_'[c].queuedRequests_ =
                        Append(Queue(c), call'.request)]_vars

\* C8, amended: on a registered camera queueRequest always appends the
\* request at the tail of the camera's queue and returns 0, also when the
\* camera is not running; it has no failure status.
C8_QueueRequestAlwaysAppends ==
    [][\A c \in Cameras :
          (call'.op = "queueRequest" /\ call'.camera = c /\ Registered(c)) =>
             /\ call'.ret = "0"
             /\ cameraData_'[c].queuedRequests_ = Append(Queue(c), call'.request)
             /\ \A d \in DOMAIN cameraData_ \ {c} :
                   cameraData_'[d] = cameraData_[d]]_vars

\* A request was queued, with success, on a camera that stop() had stopped.
C8_Witness ==
    /\ call.op = "queueRequest"
    /\ call.ret = "0"
    /\ Queue(call.camera) = <<call.request>>
    /\ \E r \in Range(queued[call.camera]) : status_[r] = "RequestCancelled"

\* C9: when a monitored media device is disconnected and the handler has
\* cameras, every camera of its list that is alive gets exactly one
\* disconnect() and exactly one removeCamera(), every camera already
\* destroyed gets no call, and the list is empty afterwards.
C9_DisconnectReachesLiveCamerasOnce ==
    [][(call'.op = "mediaDeviceDisconnected" /\ cameras_ # <<>>) =>
          /\ cameras_' = <<>>
          /\ \A c \in Cameras :
                IF c \in Range(cameras_) /\ Alive(c)
                THEN /\ disconnected'[c] = disconnected[c] + 1
                     /\ removed'[c] = removed[c] + 1
                     /\ c \notin managerCameras'
                ELSE /\ disconnected'[c] = disconnected[c]
                     /\ removed'[c] = removed[c]]_vars

\* The cascade ran over two registered cameras: one was alive and was
\* disconnected and removed, the other had been destroyed and got no call.
C9_Witness ==
    /\ call.op = "mediaDeviceDisconnected"
    /\ call.ret = "disconnect"
    /\ cameras_ = <<>>
    /\ \E c, d \in Cameras :
          /\ added[c] = 1 /\ disconnected[c] = 1 /\ removed[c] = 1
          /\ added[d] = 1 /\ disconnected[d] = 0 /\ removed[d] = 0

\* C10: the slot unsubscribes from the media device that fired, and over any
\* sequence of disconnect signals every camera is disconnected and removed
\* from the camera manager at most once.
C10_HotUnplugIdempotent ==
    [][/\ call'.op = "mediaDeviceDisconnected" => call'.camera \notin connected'
       /\ \A c \in Cameras : disconnected'[c] <= 1 /\ removed'[c] <= 1]_vars

\* A second media device fired after the cascade of the first one.
C10_Witness ==
    /\ call.op = "mediaDeviceDisconnected"
    /\ call.ret = "return"
    /\ \E c \in Cameras : disconnected[c] = 1 /\ removed[c] = 1

\* C11: a disconnect signal that finds the handler with no camera in its
\* list only unsubscribes from the media device: disconnect() is not called,
\* no camera gets disconnect(), removeCamera() is not called, and the list
\* of cameras and the camera-data map are unchanged.
C11_DisconnectWithoutCamerasIsNoOp ==
    [][(call'.op = "mediaDeviceDisconnected" /\ cameras_ = <<>>) =>
          /\ call'.ret = "return"
          /\ connected' = connected \ {call'.camera}
          /\ disconnected' = disconnected
          /\ removed' = removed
          /\ managerCameras' = managerCameras
          /\ cameras_' = cameras_
          /\ cameraData_' = cameraData_]_vars

\* The signal fired on a handler that never had a camera disconnected.
C11_Witness ==
    /\ call.op = "mediaDeviceDisconnected"
    /\ call.ret = "return"
    /\ call.camera \notin connected
    /\ cameras_ = <<>>
    /\ \A c \in Cameras : disconnected[c] = 0 /\ removed[c] = 0

\* C12: registerCamera(camera, data) calls addCamera once for that camera
\* and for no other, appends one reference to the list of cameras, and binds
\* the data to the camera: from then on the camera-data map holds an entry
\* for the camera whose camera_ is that camera, and no later call (the
\* registration of another camera, a request call, a disconnect) removes the
\* entry or changes its camera_.
C12_RegistrationBinds ==
    [][/\ \A c \in Cameras : Called("registerCamera", c) =>
             /\ added' = [added EXCEPT ![c] = @ + 1]
             /\ cameras_' = Append(cameras_, c)
             /\ c \in DOMAIN cameraData_'
             /\ cameraData_'[c].camera_ = c
       /\ call'.op # "registerCamera" =>
             /\ added' = added
             /\ DOMAIN cameraData_' = DOMAIN cameraData_
       /\ \A c \in DOMAIN cameraData_ :
             /\ c \in DOMAIN cameraData_'
             /\ cameraData_[c].camera_ = c
             /\ cameraData_'[c].camera_ = c]_vars

\* The first camera keeps its data, with requests queued, after the second
\* camera was registered and the handler disconnected them.
C12_Witness ==
    /\ call.op = "mediaDeviceDisconnected"
    /\ call.ret = "disconnect"
    /\ DOMAIN cameraData_ = {1, 2}
    /\ cameras_ = <<>>
    /\ cameraData_[1].camera_ = 1
    /\ cameraData_[1].queuedRequests_ # <<>>
    /\ added[1] = 1

\* C13: queueRequest, completeRequest and stop for a camera that was never
\* registered end in the fatal assertion of cameraData(): the call returns
\* nothing, no entry is added to the camera-data map, and no queue and no
\* other state of the handler changes.
C13_UnregisteredCameraIsFatal ==
    [][\A c \in Cameras :
          (/\ call'.op \in {"queueRequest", "completeRequest", "stop"}
           /\ call'.camera = c
           /\ ~Registered(c)) =>
             /\ fatal' = "assert"
             /\ call'.ret = "fatal"
             /\ DOMAIN cameraData_' = DOMAIN cameraData_
             /\ UNCHANGED <<queueVars, hotplugVars>>]_vars

\* stop() on the second camera, never registered, while the first one has a
\* request queued.
C13_Witness ==
    /\ call.op = "stop"
    /\ call.ret = "fatal"
    /\ fatal = "assert"
    /\ DOMAIN cameraData_ = {1}
    /\ call.camera = 2
    /\ cameraData_[1].queuedRequests_ # <<>>

\* C14: a match attempt that fails leaves no acquisition outstanding: the
\* devices acquired during the attempt are released, so every device is held
\* after the attempt by whoever held it before, the attempt reports false,
\* and no camera is registered.
C14_FailedMatchAcquiresNothing ==
    [][(call'.op = "match" /\ call'.ret = "false") =>
          /\ acquired' = acquired
          /\ cameraData_' = cameraData_
          /\ cameras_' = cameras_
          /\ managerCameras' = managerCameras
          /\ added' = added]_vars

\* An attempt that needs three devices, acquires two and fails on the third.
C14_Witness ==
    /\ call.op = "match"
    /\ call.ret = "false"
    /\ call.request = 3
    /\ call.buffer = 2
    /\ acquired[1] = "free"
    /\ acquired[2] = "free"
    /\ acquired[3] = "other"

\* C15: the registry of factories is append-only and ordered: factories()
\* holds the factories constructed so far in the order of their construction,
\* every construction appends exactly one entry, the factory constructed, and
\* no entry is removed, replaced or moved; a factory whose name is already in
\* the registry is appended like any other.
C15_RegistryAppendOnly ==
    [][/\ IsPrefix(factories, factories')
       /\ Len(factories') <= Len(factories) + 1
       /\ \A i \in DOMAIN factories : factories[i].factory = i
       /\ call'.op = "PipelineHandlerFactory" =>
             factories' = Append(factories, [factory |-> call'.camera,
                                             name_ |-> call'.request])]_vars

\* Three factories, the third with the name of the first.
C15_Witness ==
    /\ Len(factories) = 3
    /\ factories[1].name_ = factories[3].name_
    /\ factories[1].name_ # factories[2].name_
    /\ factories[1].factory # factories[3].factory
    /\ call.op = "PipelineHandlerFactory"

\* C16: the accesses to a camera's queue are serialized: when a queueRequest
\* and a completeRequest for the same camera have run at the same time and
\* both have returned, the queue is what the two calls leave in one order or
\* the other: the requests queued and not completed, in the order they were
\* queued, none lost and none twice.
C16_QueueAccessSerialized ==
    (fatal = "none" /\ submit.pc = "idle" /\ complete.pc = "idle") =>
        \A c \in DOMAIN cameraData_ : Queue(c) = Unnotified(c)

\* Every buffer was signaled at most once and every request was told
\* terminal at most once.
AtMostOnce ==
    \A r \in Requests :
        /\ Terminals(observed[r]) <= 1
        /\ \A b \in BufferIds : BufferSignals(observed[r], b) <= 1

\* The claim of C17 as it is written: whatever the interleaving of stop with
\* the calls of the hardware callback, no assertion fails, no buffer is
\* signaled twice, no request is told terminal twice, and when stop returns
\* no buffer of a request queued to the camera is left unsignaled.
C17_ExactlyOnceUnderStopRace ==
    /\ fatal = "none"
    /\ AtMostOnce
    /\ (call.op = "stop" /\ stopping.pc = "idle") =>
          \A r \in Range(queued[call.camera]) :
              \A b \in bufferMap_[r] : BufferSignals(observed[r], b) = 1

\* C17: buffer and request signaling is exactly-once across a stop that is
\* synchronized with the completion path, as the documentation of stop
\* requires: as long as no call of the hardware callback has run while a stop
\* was in progress, no assertion fails, no buffer is signaled twice, no
\* request is told terminal twice, every buffer of a cancelled request was
\* signaled exactly once, and a stop that returns leaves every request that
\* was queued to the camera with exactly one terminal notification.
C17_ExactlyOnceWhenStopSynchronized ==
    [][~stopping'.raced =>
          /\ fatal' = "none"
          /\ AtMostOnce'
          /\ \A r \in Requests :
                status_'[r] = "RequestCancelled" =>
                    /\ pending_'[r] = {}
                    /\ \A b \in bufferMap_'[r] :
                          BufferSignals(observed'[r], b) = 1
          /\ (stopping.pc = "outer" /\ stopping'.pc = "idle") =>
                \A r \in Range(queued[stopping.camera]) :
                    Terminals(observed'[r]) = 1]_vars

\* A synchronized stop has returned after it cancelled a request with two
\* buffers, one of them completed by the hardware before the stop.
C17_Witness ==
    /\ call.op = "stop"
    /\ stopping.pc = "idle"
    /\ ~stopping.raced
    /\ \E r \in Requests :
          /\ status_[r] = "RequestCancelled"
          /\ bufferMap_[r] = {1, 2}
          /\ BufferStatus(cancelled, r, 1) # BufferStatus(cancelled, r, 2)

\* The cancellation notifications of the buffers of request r all precede
\* the Cancelled notification of r.
CancelledBuffersFirst(r) ==
    \A i, j \in DOMAIN observed[r] :
        (/\ observed[r][i][1] = "request"
         /\ observed[r][i][4] = "RequestCancelled"
         /\ observed[r][j][1] = "buffer"
         /\ observed[r][j][4] = "BufferCancelled") => j < i

\* The claim of C18 as it is written: a request that was told terminal, by
\* completeRequest or by stop, has no buffer pending, and the cancellations
\* of its buffers come before its own.
C18_NoBufferPendingAtTerminal ==
    \A r \in Requests :
        /\ Terminals(observed[r]) >= 1 => pending_[r] = {}
        /\ CancelledBuffersFirst(r)

\* C18: a buffer that has left the pending set never enters it again; a
\* request that stop has cancelled has no buffer pending, every buffer of it
\* was signaled, and the cancellations of its buffers were delivered before
\* its own Cancelled notification.  Nothing is said of the requests that
\* completeRequest completes: it does not look at the pending set.
C18_StopLeavesNoBufferPending ==
    [][\A r \in Requests :
          /\ r < nextRequest => pending_'[r] \subseteq pending_[r]
          /\ (\E c \in Cameras :
                 RequestEvent(c, "RequestCancelled") \in Range(observed'[r]))
             => /\ pending_'[r] = {}
                /\ \A b \in bufferMap_'[r] : BufferSignals(observed'[r], b) >= 1
          /\ CancelledBuffersFirst(r)']_vars

\* stop() has cancelled a request whose two buffers were both pending, after
\* completeRequest completed another one that had a buffer pending.
C18_Witness ==
    /\ call.op = "stop"
    /\ call.ret = "void"
    /\ \E r \in Requests :
          /\ bufferMap_[r] = {1, 2}
          /\ observed[r] = <<BufferEvent(call.camera, 1, "BufferCancelled"),
                             BufferEvent(call.camera, 2, "BufferCancelled"),
                             RequestEvent(call.camera, "RequestCancelled")>>
    /\ \E r \in Requests :
          /\ status_[r] = "RequestComplete"
          /\ pending_[r] # {}

\* C19: a request is out of its camera's queue when its terminal
\* notification is delivered, by completeRequest and by stop alike; a
\* queueRequest made from within the notification appends its request behind
\* the requests still queued; and a stop returns with an empty queue, every
\* request queued before or during it (unless a hardware callback raced the
\* stop) having been told terminal once.
C19_RemovedBeforeNotified ==
    [][/\ \A c \in DOMAIN cameraData_ :
             notifications'[c] # notifications[c] =>
                LET request == notifications'[c][Len(notifications'[c])][1]
                IN /\ request \notin Range(Queue(c))
                   /\ request \notin Range(cameraData_'[c].queuedRequests_)
       /\ \A c \in DOMAIN cameraData_ :
             (call' # call /\ Called("queueRequest", c)) =>
                cameraData_'[c].queuedRequests_ = Append(Queue(c), call'.request)
       /\ (stopping.pc = "outer" /\ stopping'.pc = "idle") =>
             /\ cameraData_'[stopping.camera].queuedRequests_ = <<>>
             /\ ~stopping.raced =>
                   \A r \in Range(queued'[stopping.camera]) :
                       Terminals(observed'[r]) = 1]_vars

\* stop() started with request 1 alone in the queue; the observer of its
\* Cancelled notification queued request 2, which stop cancelled as well
\* before it returned.
C19_Witness ==
    /\ stopping.pc = "notified"
    /\ ~stopping.raced
    /\ stopping.snap = <<1>>
    /\ stopping.request = 2
    /\ Queue(stopping.camera) = <<>>
    /\ notifications[stopping.camera] =
          <<<<1, "RequestCancelled">>, <<2, "RequestCancelled">>>>

\* The notifications of log obs that were delivered to camera c.
DeliveredTo(obs, c) ==
    LET ToCamera(e) == e[2] = c
    IN SelectSeq(obs, ToCamera)

\* C20: the queues are per camera and independent: a queueRequest,
\* completeBuffer, completeRequest or stop call for camera a leaves the
\* camera data of every other registered camera unchanged, its queue
\* included, and delivers no notification to it; and none of the four calls
\* changes the list of cameras or the cameras the camera-data map holds.
C20_QueuesIndependent ==
    [][\A a \in Cameras :
          (/\ call'.op \in {"queueRequest", "completeBuffer",
                            "completeRequest", "stop"}
           /\ call'.camera = a) =>
             /\ cameras_' = cameras_
             /\ DOMAIN cameraData_' = DOMAIN cameraData_
             /\ \A c \in DOMAIN cameraData_ :
                   cameraData_'[c].camera_ = cameraData_[c].camera_
             /\ \A c \in DOMAIN cameraData_ \ {a} :
                   /\ cameraData_'[c] = cameraData_[c]
                   /\ notifications'[c] = notifications[c]
                   /\ \A r \in Requests :
                         DeliveredTo(observed'[r], c) = DeliveredTo(observed[r], c)]_vars

\* stop() has drained the queue of camera 1 while camera 2 keeps its request
\* queued and has been told nothing.
C20_Witness ==
    /\ call.op = "stop"
    /\ call.camera = 1
    /\ call.ret = "void"
    /\ DOMAIN cameraData_ = {1, 2}
    /\ notifications[1] # <<>>
    /\ Queue(1) = <<>>
    /\ Queue(2) # <<>>
    /\ notifications[2] = <<>>

\* The statements a stop() in progress has still to execute when nothing is
\* queued meanwhile: four for every request in the queue and two for each of
\* its pending buffers, and what is left of the request in hand.
StopWork ==
    LET c == stopping.camera
        r == stopping.request
        Cost == [x \in Requests |-> 4 + 2 * Cardinality(pending_[x])]
        InHand == CASE stopping.pc = "inner" -> 3 + 2 * Cardinality(pending_[r])
                    [] stopping.pc = "buffer" -> 2 + 2 * Cardinality(pending_[r])
                    [] stopping.pc = "request" -> 2
                    [] stopping.pc = "notified" -> 1
                    [] OTHER -> 0
    IN IF stopping.pc = "idle"
       THEN 0
       ELSE 1 + InHand + SumOver(Cost, Range(Queue(c)))

\* C21: stop(camera) terminates: every statement of stop leaves one
\* statement less to execute (an iteration of the inner loop takes one
\* buffer out of the pending set of the request, an iteration of the outer
\* loop takes one request out of the queue), only a queueRequest of the
\* observer adds to what is left, and a stop in progress returns.
C21_StopTerminates ==
    /\ [][/\ StopStep => StopWork' = StopWork - 1
          /\ (stopping.pc = "buffer" /\ StopStep) =>
                pending_'[stopping.request] =
                    pending_[stopping.request] \ {stopping.buffer}
          /\ (stopping.pc = "outer" /\ StopStep /\ stopping'.pc # "idle") =>
                cameraData_'[stopping.camera].queuedRequests_ =
                    Tail(Queue(stopping.camera))
          /\ (stopping.pc # "idle" /\ StopWork' > StopWork) =>
                (call' # call /\ call'.op = "queueRequest")]_vars
    /\ (stopping.pc # "idle") ~> (stopping.pc = "idle" /\ call.op = "stop")

\* stop() has returned after it cancelled two requests, the first with two
\* buffers pending, the second queued by the observer of the first.
C21_Witness ==
    /\ call.op = "stop"
    /\ stopping.pc = "idle"
    /\ stopping.raced = FALSE
    /\ Queue(call.camera) = <<>>
    /\ queued[call.camera] = <<1, 2>>
    /\ notifications[call.camera] =
          <<<<1, "RequestCancelled">>, <<2, "RequestCancelled">>>>
    /\ observed[1] = <<BufferEvent(call.camera, 1, "BufferCancelled"),
                       BufferEvent(call.camera, 2, "BufferCancelled"),
                       RequestEvent(call.camera, "RequestCancelled")>>

====
